---- MODULE Spec2Model ----
(***************************************************************************)
(* A model of examples/rnn/Model.py: the indicator engine                  *)
(* (moving_average, percent_change, create_indicators), the labeler        *)
(* (to_categorical), the evaluator (stats) and the forward pass of         *)
(* MarketPredictor.                                                        *)
(*                                                                         *)
(* Numbers.  Tensor elements are exact rationals [num, den] in lowest      *)
(* terms with den > 0; den = 0 stands for the non-finite results of a      *)
(* division by zero (0/0 is NaN, +-1/0 is +-infinity).  Rounding of the    *)
(* floating-point formats is not modelled.  The labeler's inputs are       *)
(* fixed-point numbers in tenths, so that the cut points -0.3 and 0.3 are  *)
(* the integers -3 and 3.                                                  *)
(*                                                                         *)
(* Tensors.  A tensor is [err, shape, data] with data in row-major order;  *)
(* err marks the exception a tensor-library call raises, and every         *)
(* operation on a raised operand is raised too, as an exception skips the  *)
(* rest of the function.  The model's indices start at 1, the code's at 0. *)
(***************************************************************************)
EXTENDS Integers, Sequences, FiniteSets, TLC

\* ---------------------------------------------------------------- bounds

MaxBatch == 2
MaxTime == 7
MaxSeed == 3
MaxSteps == 2
MaxLabels == 3
MaxCalls == 2

\* Labeler inputs in tenths: below, at and above each cut point.
LabelValues == {-4, -3, 0, 3, 4}

\* Rows of a predicted distribution (as integer scores): a clear winner in
\* each class, and ties, which argmax breaks towards the first maximum.
DistRows == {<<3, 1, 1>>, <<1, 3, 1>>, <<1, 1, 3>>, <<1, 2, 2>>}

\* Ground-truth returns for stats, in tenths.
TruthValues == {-3, 3, 4}

\* Rows the decoder may produce before the softmax, of width w: the weights
\* are not part of the model, so any of them may come out for any input.
LogitRows(w) ==
  {[c \in 1..w |-> 0], [c \in 1..w |-> c - 2], [c \in 1..w |-> 1 - ((c * c) % 3) * 2]}

\* ------------------------------------------------------------- rationals

Abs(n) == IF n < 0 THEN -n ELSE n

Sign(n) == IF n < 0 THEN -1 ELSE IF n > 0 THEN 1 ELSE 0

Min(a, b) == IF a < b THEN a ELSE b

Max(a, b) == IF a > b THEN a ELSE b

RECURSIVE GCD(_, _)
GCD(a, b) == IF b = 0 THEN a ELSE GCD(b, a % b)

Rat(n, d) ==
  IF d = 0 THEN [num |-> Sign(n), den |-> 0]
  ELSE LET g == GCD(Abs(n), Abs(d))
       IN [num |-> Sign(d) * (n \div g), den |-> Abs(d) \div g]

NaN == [num |-> 0, den |-> 0]

Zero == [num |-> 0, den |-> 1]

One == [num |-> 1, den |-> 1]

FromInt(n) == [num |-> n, den |-> 1]

IsFinite(a) == a.den # 0

RNeg(a) == [num |-> -a.num, den |-> a.den]

RAdd(a, b) ==
  IF IsFinite(a) /\ IsFinite(b) THEN Rat(a.num * b.den + b.num * a.den, a.den * b.den)
  ELSE IF a = NaN \/ b = NaN THEN NaN
  ELSE IF ~IsFinite(a) /\ ~IsFinite(b) THEN (IF a.num = b.num THEN a ELSE NaN)
  ELSE IF IsFinite(a) THEN b ELSE a

RSub(a, b) == RAdd(a, RNeg(b))

RMul(a, b) ==
  IF IsFinite(a) /\ IsFinite(b) THEN Rat(a.num * b.num, a.den * b.den)
  ELSE IF a = NaN \/ b = NaN \/ a.num = 0 \/ b.num = 0 THEN NaN
  ELSE [num |-> Sign(a.num) * Sign(b.num), den |-> 0]

RInv(b) ==
  IF IsFinite(b) THEN Rat(b.den, b.num)
  ELSE IF b = NaN THEN NaN ELSE Zero

\* True division, a / b: 0/0 is NaN, x/0 is infinite.
RDiv(a, b) == RMul(a, RInv(b))

RECURSIVE RSum(_)
RSum(s) == IF s = <<>> THEN Zero ELSE RAdd(s[1], RSum(Tail(s)))

\* --------------------------------------------------------------- tensors

Tensor(shape, data) == [shape |-> shape, data |-> data, err |-> FALSE]

Raised == [shape |-> <<>>, data |-> <<>>, err |-> TRUE]

Tensor1(n, f(_)) == Tensor(<<n>>, [i \in 1..n |-> f(i)])

Tensor2(rows, cols, f(_, _)) ==
  Tensor(<<rows, cols>>,
         [k \in 1..(rows * cols) |-> f(((k - 1) \div cols) + 1, ((k - 1) % cols) + 1)])

Tensor3(d1, d2, d3, f(_, _, _)) ==
  Tensor(<<d1, d2, d3>>,
         [k \in 1..(d1 * d2 * d3) |->
            f(((k - 1) \div (d2 * d3)) + 1, (((k - 1) \div d3) % d2) + 1, ((k - 1) % d3) + 1)])

At2(x, i, j) == x.data[(i - 1) * x.shape[2] + j]

At3(x, i, j, k) == x.data[((i - 1) * x.shape[2] + (j - 1)) * x.shape[3] + k]

\* Python's normalisation of a slice bound for a dimension of size n.
PySliceBound(n, b) == IF b < 0 THEN Max(n + b, 0) ELSE Min(b, n)

\* x[:, :-start]: the leading columns in place of the trailing ones.
SliceLeading(x, start) ==
  IF x.err THEN Raised
  ELSE Tensor2(x.shape[1], PySliceBound(x.shape[2], -start), LAMBDA i, j : At2(x, i, j))

\* x[:, start:]
SliceFrom(x, start) ==
  IF x.err THEN Raised
  ELSE LET s == PySliceBound(x.shape[2], start)
       IN Tensor2(x.shape[1], x.shape[2] - s, LAMBDA i, j : At2(x, i, s + j))

\* x[:, :stop]
SliceUntil(x, stop) ==
  IF x.err THEN Raised
  ELSE Tensor2(x.shape[1], PySliceBound(x.shape[2], stop), LAMBDA i, j : At2(x, i, j))

\* x[:, -1]: an IndexError on a dimension of size 0.
LastColumn(x) ==
  IF x.err THEN Raised
  ELSE IF x.shape[2] = 0 THEN Raised
  ELSE Tensor1(x.shape[1], LAMBDA i : At2(x, i, x.shape[2]))

\* A shape of one or two dimensions, padded on the left to two.
Shape2(x) == IF Len(x.shape) = 1 THEN <<1, x.shape[1]>> ELSE x.shape

BroadcastDim(a, b) == IF a = 1 THEN b ELSE a

Broadcastable(a, b) == a = b \/ a = 1 \/ b = 1

\* An elementwise binary operation under the library's broadcasting rules:
\* shapes are aligned at their last dimension, a dimension of size 1 is
\* stretched, any other mismatch raises.
Broadcast(a, b, Op(_, _)) ==
  IF a.err \/ b.err THEN Raised
  ELSE LET sa == Shape2(a)
           sb == Shape2(b)
           rows == BroadcastDim(sa[1], sb[1])
           cols == BroadcastDim(sa[2], sb[2])
           Elem(x, sx, i, j) ==
             x.data[((IF sx[1] = 1 THEN 1 ELSE i) - 1) * sx[2] + (IF sx[2] = 1 THEN 1 ELSE j)]
       IN IF ~(Broadcastable(sa[1], sb[1]) /\ Broadcastable(sa[2], sb[2])) THEN Raised
          ELSE IF Len(a.shape) = 1 /\ Len(b.shape) = 1
               THEN Tensor1(cols, LAMBDA j : Op(Elem(a, sa, 1, j), Elem(b, sb, 1, j)))
               ELSE Tensor2(rows, cols,
                            LAMBDA i, j : Op(Elem(a, sa, i, j), Elem(b, sb, i, j)))

TSub(a, b) == Broadcast(a, b, RSub)

TDiv(a, b) == Broadcast(a, b, RDiv)

\* tensor (op) Python scalar
TScalar(x, r, Op(_, _)) ==
  IF x.err THEN Raised
  ELSE Tensor(x.shape, [k \in DOMAIN x.data |-> Op(x.data[k], r)])

\* ------------------------------------------------------ indicator engine

\* A moving sum: the kernel of ones, not divided by the window.
moving_sum(prices, window) ==
  IF prices.err THEN Raised
  ELSE IF window < 1 \/ window > prices.shape[2] THEN Raised
  ELSE Tensor2(prices.shape[1], prices.shape[2] - window + 1,
               LAMBDA i, k : RSum([m \in 1..window |-> At2(prices, i, k + m - 1)]))

\* kernel = torch.ones((1, 1, window)) / window; conv1d(prices.unsqueeze(1), kernel)[:,0,:].
\* conv1d raises for a kernel of size 0 and for a kernel longer than its input.
moving_average(prices, window) ==
  IF prices.err THEN Raised
  ELSE IF window < 1 \/ window > prices.shape[2] THEN Raised
  ELSE LET kernel == [m \in 1..window |-> RDiv(One, FromInt(window))]
       IN Tensor2(prices.shape[1], prices.shape[2] - window + 1,
                  LAMBDA i, k : RSum([m \in 1..window |-> RMul(At2(prices, i, k + m - 1), kernel[m])]))

\* The ratio taken the other way round: (prices[:,:-1] / prices[:,1:]) - 1.
percent_change_backwards(prices) ==
  TScalar(TDiv(SliceUntil(prices, -1), SliceFrom(prices, 1)), One, RSub)

\* (prices[:,1:] / prices[:,:-1]) - 1
percent_change(prices) ==
  TScalar(TDiv(SliceFrom(prices, 1), SliceUntil(prices, -1)), One, RSub)

\* nn.functional.unfold(prices.unsqueeze(1).unsqueeze(3), kernel_size=(window,1)):
\* batch x window x (time - window + 1), block l holding prices[l .. l+window-1].
Unfold(prices, window) ==
  IF prices.err THEN Raised
  ELSE IF window < 1 \/ window > prices.shape[2] THEN Raised
  ELSE Tensor3(prices.shape[1], window, prices.shape[2] - window + 1,
               LAMBDA i, m, l : At2(prices, i, l + m - 1))

\* torch.var(x, dim=1) of a 3-D tensor: the unbiased sample variance.
VarDim1(x) ==
  IF x.err THEN Raised
  ELSE LET n == x.shape[2]
           Mean(i, l) == RDiv(RSum([m \in 1..n |-> At3(x, i, m, l)]), FromInt(n))
           Dev2(i, m, l) == LET d == RSub(At3(x, i, m, l), Mean(i, l)) IN RMul(d, d)
       IN Tensor2(x.shape[1], x.shape[3],
                  LAMBDA i, l : RDiv(RSum([m \in 1..n |-> Dev2(i, m, l)]), FromInt(n - 1)))

\* round(window / k) in place of int(window / k).
IntDivRounded(window, k) == (2 * window + k) \div (2 * k)

\* int(window / k) for a positive window: Python's true division, truncated.
IntDiv(window, k) == window \div k

Hundred == FromInt(100)

IndicatorNames == {"macd1", "macd2", "pct", "var"}

\* macd[:,-1] when only the latest value is asked for.
Latest(x, series) == IF series THEN x ELSE LastColumn(x)

create_indicators(prices, window, series) ==
  LET input_length == prices.shape[2] - window + 1
      malong1 == SliceFrom(moving_average(prices, IntDiv(window, 2)), -input_length)
      mashort1 == SliceFrom(moving_average(prices, IntDiv(window, 6)), -input_length)
      macd1 == Latest(TDiv(TSub(mashort1, malong1), malong1), series)
      malong2 == SliceFrom(moving_average(prices, window), -input_length)
      mashort2 == SliceFrom(moving_average(prices, IntDiv(window, 3)), -input_length)
      macd2 == Latest(TDiv(TSub(mashort2, malong2), malong2), series)
      pct == Latest(SliceFrom(percent_change(prices), -input_length), series)
      var == Latest(VarDim1(Unfold(prices, window)), series)
      data == [macd1 |-> TScalar(macd1, Hundred, RMul),
               macd2 |-> TScalar(macd2, Hundred, RMul),
               pct |-> TScalar(pct, Hundred, RMul),
               var |-> TScalar(TDiv(var, malong2), Hundred, RMul)]
      ws == <<IntDiv(window, 2), IntDiv(window, 6), window, IntDiv(window, 3)>>
      ncalls == IF malong1.err THEN 1
                ELSE IF mashort1.err \/ macd1.err THEN 2
                ELSE IF malong2.err THEN 3
                ELSE 4
  IN IF \E k \in IndicatorNames : data[k].err
     THEN [data |-> [k \in {} |-> Raised], raised |-> TRUE, ma_windows |-> SubSeq(ws, 1, ncalls)]
     ELSE [data |-> data, raised |-> FALSE, ma_windows |-> ws]

\* --------------------------------------------------------------- labeler

\* The cut points -0.3 and 0.3, in tenths.
LoCut == -3

HiCut == 3

\* The mask of data >= cut: the cut point on the wrong side.
MaskGe(data, cut) == [i \in DOMAIN data.data |-> data.data[i] >= cut]

\* data > cut, elementwise: a boolean mask.
MaskGt(data, cut) == [i \in DOMAIN data.data |-> data.data[i] > cut]

\* categories[mask] = v
MaskedAssign(x, mask, v) ==
  Tensor(x.shape, [i \in DOMAIN x.data |-> IF mask[i] THEN v ELSE x.data[i]])

\* .long(): a float truncated towards zero.
Long(r) == Sign(r.num) * (Abs(r.num) \div r.den)

to_categorical(data) ==
  LET zeros == Tensor1(data.shape[1], LAMBDA i : Zero)
      low == MaskedAssign(zeros, MaskGt(data, LoCut), One)
      high == MaskedAssign(low, MaskGt(data, HiCut), FromInt(2))
  IN Tensor(high.shape, [i \in DOMAIN high.data |-> Long(high.data[i])])

\* ------------------------------------------------------------- evaluator

\* torch.argmax(dist, dim=1): per row, the index (from 0) of the first maximum.
ArgmaxDim1(dist) ==
  Tensor1(dist.shape[1],
          LAMBDA i : (CHOOSE j \in 1..dist.shape[2] :
                        /\ \A k \in 1..dist.shape[2] : At2(dist, i, k) <= At2(dist, i, j)
                        /\ \A k \in 1..(j - 1) : At2(dist, i, k) < At2(dist, i, j)) - 1)

\* torch.sum of a boolean mask: the number of its true elements.
RECURSIVE CountTrue(_)
CountTrue(mask) ==
  IF mask = <<>> THEN 0 ELSE (IF mask[1] THEN 1 ELSE 0) + CountTrue(Tail(mask))

\* A division guarded against a zero divisor, giving 0 there.
GuardedDiv(a, b) == IF b = 0 THEN Zero ELSE RDiv(FromInt(a), FromInt(b))

\* The true division of two integer counts.
TrueDiv(a, b) == RDiv(FromInt(a), FromInt(b))

\* The class stats treats as positive ("up").
PositiveClass == 2

\* stats with the divisors of precision and recall exchanged.
stats_exchanged(dist, truth) ==
  LET dist_cat == ArgmaxDim1(dist)
      truth_cat == to_categorical(truth)
      n == truth_cat.shape[1]
      accuracy == TrueDiv(CountTrue([i \in 1..n |-> dist_cat.data[i] = truth_cat.data[i]]), n)
      dist_pos == [i \in 1..n |-> dist_cat.data[i] = PositiveClass]
      truth_pos == [i \in 1..n |-> truth_cat.data[i] = PositiveClass]
      correct == CountTrue([i \in 1..n |-> dist_pos[i] /\ truth_pos[i]])
      precision == TrueDiv(correct, CountTrue(truth_pos))
      recall == TrueDiv(correct, CountTrue(dist_pos))
  IN [accuracy |-> accuracy, precision |-> precision, recall |-> recall]

stats(dist, truth) ==
  LET dist_cat == ArgmaxDim1(dist)
      truth_cat == to_categorical(truth)
      n == truth_cat.shape[1]
      accuracy == TrueDiv(CountTrue([i \in 1..n |-> dist_cat.data[i] = truth_cat.data[i]]), n)
      dist_pos == [i \in 1..n |-> dist_cat.data[i] = PositiveClass]
      truth_pos == [i \in 1..n |-> truth_cat.data[i] = PositiveClass]
      correct == CountTrue([i \in 1..n |-> dist_pos[i] /\ truth_pos[i]])
      precision == TrueDiv(correct, CountTrue(dist_pos))
      recall == TrueDiv(correct, CountTrue(truth_pos))
  IN [accuracy |-> accuracy, precision |-> precision, recall |-> recall]

\* ----------------------------------------------------- predictor network

\* __init__'s default number of input channels.
input_channels == 4

finput_layer_sizes == <<input_channels, 8, 16, 16>>

foutput_layer_sizes == <<16, 16, 8, 3>>

\* The layers create_net appends for i = from .. len(layer_sizes)-2.
RECURSIVE create_layers(_, _, _)
create_layers(layer_sizes, omit_last_activation, i) ==
  IF i > Len(layer_sizes) - 2 THEN <<>>
  ELSE <<[kind |-> "Linear", in |-> layer_sizes[i + 1], out |-> layer_sizes[i + 2]],
         [kind |-> "BatchNorm1d", in |-> layer_sizes[i + 2], out |-> layer_sizes[i + 2]]>>
       \o (IF i < Len(layer_sizes) - 2 \/ ~omit_last_activation
           THEN <<[kind |-> "ReLU", in |-> layer_sizes[i + 2], out |-> layer_sizes[i + 2]]>>
           ELSE <<>>)
       \o create_layers(layer_sizes, omit_last_activation, i + 1)

create_net(layer_sizes, omit_last_activation) ==
  create_layers(layer_sizes, omit_last_activation, 0)

finput == create_net(finput_layer_sizes, FALSE)

foutput == create_net(foutput_layer_sizes, TRUE)

\* The width of a network's output rows.
OutWidth(net) == net[Len(net)].out

\* BatchNorm1d in training mode raises a ValueError on a batch with a single
\* value per channel.
BatchNormRaises(net, rows, training) ==
  training /\ rows = 1 /\ \E l \in DOMAIN net : net[l].kind = "BatchNorm1d"

\* x.reshape(batch * timesteps, channels): row (b, t) goes to row b*timesteps + t.
Flatten(x, batch, timesteps) ==
  [k \in 1..(batch * timesteps) |-> x[((k - 1) \div timesteps) + 1][((k - 1) % timesteps) + 1]]

\* .reshape(batch, timesteps, width)
Unflatten(flat, batch, timesteps) ==
  [b \in 1..batch |-> [tt \in 1..timesteps |-> flat[(b - 1) * timesteps + tt]]]

\* The encoder on a batch of rows.  Its weights are not modelled: the
\* features of a row are a term naming the row they encode and their width.
Encode(rows) == [k \in DOMAIN rows |-> [enc |-> rows[k], width |-> OutWidth(finput)]]

\* torch.zeros(batch, 16): a hidden state no GRU step has touched.
ZeroHidden(batch) == [b \in 1..batch |-> <<>>]

\* One GRU cell step on x_input[:,t,:].  The cell's weights are not
\* modelled: a hidden state is the sequence of the inputs folded into it, so
\* two hidden states are equal only when built by the same steps in the
\* same order from zero.
gru(x_input, tt, h) == [b \in DOMAIN h |-> Append(h[b], x_input[b][tt])]

\* The loop left one step early.
LoopDoneEarly(tt, timesteps) == tt >= timesteps - 1

\* range(timesteps) is exhausted.
LoopDone(tt, timesteps) == tt >= timesteps

RECURSIVE Pow2(_)
Pow2(n) == IF n = 0 THEN 1 ELSE 2 * Pow2(n - 1)

\* The exponential of a non-positive integer, to the base 2 in place of e.
ExpNeg(n) == RDiv(One, FromInt(Pow2(-n)))

RECURSIVE MaxOf(_)
MaxOf(s) == IF Len(s) = 1 THEN s[1] ELSE Max(s[1], MaxOf(Tail(s)))

\* nn.functional.softmax(x, dim=dim) of a batch x classes tensor of integers:
\* exp(x - max) over the sum of exp(x - max) along dim.
SoftmaxAlong(x, dim) ==
  LET Line(i, j) == IF dim = 1 THEN [c \in 1..x.shape[2] |-> At2(x, i, c)]
                    ELSE [r \in 1..x.shape[1] |-> At2(x, r, j)]
      Exps(i, j) == LET l == Line(i, j) IN [k \in DOMAIN l |-> ExpNeg(l[k] - MaxOf(l))]
  IN Tensor2(x.shape[1], x.shape[2],
             LAMBDA i, j : RDiv(Exps(i, j)[IF dim = 1 THEN j ELSE i], RSum(Exps(i, j))))

\* The softmax along the other dimension of a 2-D tensor.
SoftmaxOtherDim(x, dim) == SoftmaxAlong(x, 1 - dim)

Softmax(x, dim) == SoftmaxAlong(x, dim)

\* The dimension forward takes the softmax over.
SoftmaxDim == 1

\* ------------------------------------------------------------------ state

VARIABLES
  recurrent,   \* self.recurrent
  training,    \* self.training (nn.Module)
  pc,          \* "ready" (no instance yet), "idle", in forward "loop" and
               \* "softmax", and "returned"
  op,          \* the function called
  arg,         \* its arguments
  ret,         \* its return value
  x_input,     \* forward's locals
  hidden,
  t,
  decoder_in,  \* what forward passed to self.foutput
  x_output,
  calls        \* how many times forward was called

vars == <<recurrent, training, pc, op, arg, ret, x_input, hidden, t, decoder_in, x_output, calls>>

None == [none |-> TRUE]

\* ----------------------------------------------------------------- inputs

\* A price row of a given seed: a fixed, non-monotonic walk over 1..5.
PriceAt(seed, tt) == 1 + ((seed * ((tt * (tt + 1)) \div 2) + tt) % 5)

PriceTensors ==
  {Tensor2(batch, time, LAMBDA i, j : FromInt(PriceAt(seeds[i], j))) :
     <<batch, time, seeds>> \in
       UNION {{<<b, tm, s>> : tm \in 1..MaxTime, s \in [1..b -> 1..MaxSeed]} : b \in 1..MaxBatch}}

\* The n x 3 tensor of the rows d.
DistTensor(n, d) == Tensor2(n, 3, LAMBDA i, j : d[i][j])

\* The channel vector of time step tt of batch row b.
ChannelVector(seed, b, tt) == [c \in 1..input_channels |-> seed + 10 * b + 100 * tt + c]

\* batch x time x channels
SequenceInputs ==
  {[b \in 1..batch |-> [tt \in 1..timesteps |-> ChannelVector(seed, b, tt)]] :
     <<batch, timesteps, seed>> \in (1..MaxBatch) \X (1..MaxSteps) \X (1..MaxSeed)}

\* batch x channels
FlatInputs ==
  {[b \in 1..batch |-> ChannelVector(seed, b, 0)] :
     <<batch, seed>> \in (1..MaxBatch) \X (1..MaxSeed)}

\* ------------------------------------------------------------------- init

Init ==
  /\ recurrent = None
  /\ training = None
  /\ pc = "ready"
  /\ op = "none"
  /\ arg = None
  /\ ret = None
  /\ x_input = None
  /\ hidden = None
  /\ t = 0
  /\ decoder_in = None
  /\ x_output = None
  /\ calls = 0

\* A call of a function that runs to its return in one step.
Returns(name, a, r) ==
  /\ pc' = "returned"
  /\ op' = name
  /\ arg' = a
  /\ ret' = r
  /\ UNCHANGED <<recurrent, training, x_input, hidden, t, decoder_in, x_output, calls>>

\* ---------------------------------------------------------------- actions

\* The module-level functions read and write nothing of a MarketPredictor
\* instance: their calls are explored once, before one is constructed.

CallToCategorical ==
  /\ pc = "ready"
  /\ \E n \in 0..MaxLabels : \E d \in [1..n -> LabelValues] :
       Returns("to_categorical", [data |-> Tensor(<<n>>, d)], to_categorical(Tensor(<<n>>, d)))

CallStats ==
  /\ pc = "ready"
  /\ \E n \in 0..MaxLabels : \E d \in [1..n -> DistRows] : \E tr \in [1..n -> TruthValues] :
       Returns("stats", [dist |-> DistTensor(n, d), truth |-> Tensor(<<n>>, tr)],
               stats(DistTensor(n, d), Tensor(<<n>>, tr)))

CallMovingAverage ==
  /\ pc = "ready"
  /\ \E prices \in PriceTensors : \E window \in 0..(prices.shape[2] + 1) :
       Returns("moving_average", [prices |-> prices, window |-> window],
               moving_average(prices, window))

CallPercentChange ==
  /\ pc = "ready"
  /\ \E prices \in PriceTensors :
       Returns("percent_change", [prices |-> prices], percent_change(prices))

CallCreateIndicators ==
  /\ pc = "ready"
  /\ \E prices \in PriceTensors : \E window \in 1..(prices.shape[2] + 1) : \E series \in BOOLEAN :
       Returns("create_indicators", [prices |-> prices, window |-> window, series |-> series],
               create_indicators(prices, window, series))

\* MarketPredictor(recurrent=...): a new nn.Module is in training mode.
Construct ==
  /\ pc = "ready"
  /\ pc' = "idle"
  /\ recurrent' \in BOOLEAN
  /\ training' = TRUE
  /\ UNCHANGED <<op, arg, ret, x_input, hidden, t, decoder_in, x_output, calls>>

\* model.eval() / model.train()
SetTraining ==
  /\ pc = "idle" \/ (pc = "returned" /\ op = "forward")
  /\ training' = ~training
  /\ UNCHANGED <<recurrent, pc, op, arg, ret, x_input, hidden, t, decoder_in, x_output, calls>>

CanCallForward ==
  /\ pc = "idle" \/ (pc = "returned" /\ op = "forward")
  /\ calls < MaxCalls

Raise ==
  /\ pc' = "returned"
  /\ ret' = Raised

\* forward, recurrent: lines 34-36, up to the loop.
ForwardRecurrent ==
  /\ CanCallForward
  /\ recurrent
  /\ \E x \in SequenceInputs :
       LET batch == Len(x)
           timesteps == Len(x[1])
       IN /\ op' = "forward"
          /\ arg' = [x |-> x]
          /\ IF BatchNormRaises(finput, batch * timesteps, training)
             THEN /\ Raise
                  /\ UNCHANGED <<x_input, hidden, t>>
             ELSE /\ x_input' = Unflatten(Encode(Flatten(x, batch, timesteps)), batch, timesteps)
                  /\ hidden' = ZeroHidden(batch)
                  /\ t' = 0
                  /\ pc' = "loop"
                  /\ ret' = None
  /\ decoder_in' = None
  /\ x_output' = None
  /\ calls' = calls + 1
  /\ UNCHANGED <<recurrent, training>>

\* One iteration of the loop of lines 37-38.
GruStep ==
  /\ pc = "loop"
  /\ ~LoopDone(t, Len(arg.x[1]))
  /\ hidden' = gru(x_input, t + 1, hidden)
  /\ t' = t + 1
  /\ UNCHANGED <<recurrent, training, pc, op, arg, ret, x_input, decoder_in, x_output, calls>>

\* self.foutput(...) on d: raises, or yields some batch of rows.
Decode(d) ==
  /\ decoder_in' = d
  /\ IF BatchNormRaises(foutput, Len(d), training)
     THEN /\ Raise
          /\ x_output' = None
     ELSE /\ pc' = "softmax"
          /\ ret' = None
          /\ \E rows \in [1..Len(d) -> LogitRows(OutWidth(foutput))] :
               x_output' = Tensor2(Len(d), OutWidth(foutput), LAMBDA i, j : rows[i][j])

\* Line 39, once the loop is over.
DecodeHidden ==
  /\ pc = "loop"
  /\ LoopDone(t, Len(arg.x[1]))
  /\ Decode(hidden)
  /\ UNCHANGED <<recurrent, training, op, arg, x_input, hidden, t, calls>>

\* forward, not recurrent: lines 42-44.
ForwardFlat ==
  /\ CanCallForward
  /\ ~recurrent
  /\ \E x \in FlatInputs :
       /\ op' = "forward"
       /\ arg' = [x |-> x]
       /\ IF BatchNormRaises(finput, Len(x), training)
          THEN /\ Raise
               /\ UNCHANGED <<x_input, decoder_in, x_output>>
          ELSE /\ x_input' = Encode(x)
               /\ Decode(Encode(x))
  /\ calls' = calls + 1
  /\ UNCHANGED <<recurrent, training, hidden, t>>

\* Lines 40 and 45.
ReturnSoftmax ==
  /\ pc = "softmax"
  /\ ret' = Softmax(x_output, SoftmaxDim)
  /\ pc' = "returned"
  /\ UNCHANGED <<recurrent, training, op, arg, x_input, hidden, t, decoder_in, x_output, calls>>

Next ==
  \/ CallToCategorical
  \/ CallStats
  \/ CallMovingAverage
  \/ CallPercentChange
  \/ CallCreateIndicators
  \/ Construct
  \/ SetTraining
  \/ ForwardRecurrent
  \/ GruStep
  \/ DecodeHidden
  \/ ForwardFlat
  \/ ReturnSoftmax

Spec == Init /\ [][Next]_vars

\* ------------------------------------------------------------ properties

Returned(name) == pc = "returned" /\ op = name

\* C1: to_categorical partitions a 1-D input at the cut points -0.3 and 0.3
\* (-3 and 3 in tenths): the output has the input's length, every output
\* element is 0, 1 or 2, and it is 2 iff v > 0.3, 1 iff -0.3 < v <= 0.3 and
\* 0 iff v <= -0.3; so v = 0.3 gives 1 and v = -0.3 gives 0.
C1_CutPoints ==
  Returned("to_categorical") =>
    /\ ~ret.err
    /\ ret.shape = arg.data.shape
    /\ Len(ret.data) = Len(arg.data.data)
    /\ \A i \in 1..Len(arg.data.data) :
         LET v == arg.data.data[i]
             c == ret.data[i]
         IN /\ c \in {0, 1, 2}
            /\ (c = 2) <=> (v > 3)
            /\ (c = 1) <=> (-3 < v /\ v <= 3)
            /\ (c = 0) <=> (v <= -3)
            /\ (v = 3) => (c = 1)
            /\ (v = -3) => (c = 0)

\* A call whose input holds both cut points and a value on each side of them.
C1_Witness ==
  /\ Returned("to_categorical")
  /\ \E i, j, k \in 1..Len(arg.data.data) :
       /\ arg.data.data[i] = 3 /\ ret.data[i] = 1
       /\ arg.data.data[j] = -3 /\ ret.data[j] = 0
       /\ arg.data.data[k] = 4 /\ ret.data[k] = 2

\* The sum of prices[b][lo..hi], an integer.
RECURSIVE PriceSum(_, _, _, _)
PriceSum(prices, b, lo, hi) ==
  IF lo > hi THEN 0 ELSE At2(prices, b, lo).num + PriceSum(prices, b, lo + 1, hi)

\* The sum of the squares of prices[b][lo..hi].
RECURSIVE PriceSquares(_, _, _, _)
PriceSquares(prices, b, lo, hi) ==
  IF lo > hi THEN 0
  ELSE At2(prices, b, lo).num * At2(prices, b, lo).num + PriceSquares(prices, b, lo + 1, hi)

\* x = n / d, for a finite x.
IsQuotient(x, n, d) == x.den # 0 /\ x.num * d = n * x.den

\* C4: moving_average(prices, window) with 1 <= window <= T returns, per
\* batch row, T - window + 1 elements, and window times element k is the sum
\* of the window prices starting at k.
C4_MovingAverageIsMean ==
  (Returned("moving_average") /\ 1 <= arg.window /\ arg.window <= arg.prices.shape[2]) =>
    /\ ~ret.err
    /\ ret.shape = <<arg.prices.shape[1], arg.prices.shape[2] - arg.window + 1>>
    /\ Len(ret.data) = ret.shape[1] * ret.shape[2]
    /\ \A b \in 1..ret.shape[1] : \A k \in 1..ret.shape[2] :
         IsQuotient(At2(ret, b, k), PriceSum(arg.prices, b, k, k + arg.window - 1), arg.window)

\* A moving average over a proper window, of several elements, one of them
\* not an integer.
C4_Witness ==
  /\ Returned("moving_average")
  /\ arg.window >= 2
  /\ ~ret.err
  /\ ret.shape[1] >= 2
  /\ ret.shape[2] >= 2
  /\ \E k \in DOMAIN ret.data : ret.data[k].den > 1

\* C5: percent_change(prices) on T >= 2 prices returns, per batch row, T - 1
\* elements, element t being prices[t+1] / prices[t] - 1 (the prices are
\* not zero).
C5_PercentChange ==
  (Returned("percent_change") /\ arg.prices.shape[2] >= 2) =>
    /\ ~ret.err
    /\ ret.shape = <<arg.prices.shape[1], arg.prices.shape[2] - 1>>
    /\ Len(ret.data) = ret.shape[1] * ret.shape[2]
    /\ \A b \in 1..ret.shape[1] : \A k \in 1..ret.shape[2] :
         LET p == At2(arg.prices, b, k).num
             q == At2(arg.prices, b, k + 1).num
         IN p # 0 => IsQuotient(At2(ret, b, k), q - p, p)

\* A series with a rise and a fall in it.
C5_Witness ==
  /\ Returned("percent_change")
  /\ arg.prices.shape[2] >= 3
  /\ ~ret.err
  /\ \E j, k \in DOMAIN ret.data : ret.data[j].num > 0 /\ ret.data[k].num < 0

\* The mean of the w prices of row b that end at (and include) price e.
MeanEnding(prices, b, e, w) == Rat(PriceSum(prices, b, e - w + 1, e), w)

\* The unbiased sample variance of the n prices of row b that end at e.
VarianceEnding(prices, b, e, n) ==
  LET sum == PriceSum(prices, b, e - n + 1, e)
  IN Rat(n * PriceSquares(prices, b, e - n + 1, e) - sum * sum, n * (n - 1))

\* 100 * (short - long) / long
SpreadPercent(short, long) == RMul(Hundred, RDiv(RSub(short, long), long))

\* The four derived moving-average windows of create_indicators.
DerivedWindows(window) == <<window \div 6, window \div 3, window \div 2, window>>

\* C3: create_indicators with series=True, every derived window size between
\* 1 and T, returns exactly macd1, macd2, pct and var, each with
\* input_length = T - window + 1 time elements, and element j (from 0) of
\* each is computed from the price window whose most recent price is
\* prices[window-1+j].
C3_TrailingAligned ==
  (/\ Returned("create_indicators")
   /\ arg.series
   /\ \A i \in 1..4 : /\ DerivedWindows(arg.window)[i] >= 1
                      /\ DerivedWindows(arg.window)[i] <= arg.prices.shape[2]) =>
    LET prices == arg.prices
        window == arg.window
        input_length == prices.shape[2] - window + 1
    IN /\ ~ret.raised
       /\ DOMAIN ret.data = {"macd1", "macd2", "pct", "var"}
       /\ \A name \in DOMAIN ret.data :
            /\ ~ret.data[name].err
            /\ ret.data[name].shape = <<prices.shape[1], input_length>>
            /\ Len(ret.data[name].data) = prices.shape[1] * input_length
       /\ \A b \in 1..prices.shape[1] : \A j \in 1..input_length :
            LET e == window - 1 + j
            IN /\ At2(ret.data.macd1, b, j) =
                    SpreadPercent(MeanEnding(prices, b, e, window \div 6),
                                  MeanEnding(prices, b, e, window \div 2))
               /\ At2(ret.data.macd2, b, j) =
                    SpreadPercent(MeanEnding(prices, b, e, window \div 3),
                                  MeanEnding(prices, b, e, window))
               /\ At2(ret.data.pct, b, j) =
                    SpreadPercent(At2(prices, b, e), At2(prices, b, e - 1))
               /\ At2(ret.data.var, b, j) =
                    RMul(Hundred, RDiv(VarianceEnding(prices, b, e, window),
                                       MeanEnding(prices, b, e, window)))

\* A series of several elements for a batch of two rows, with a window
\* shorter than the prices.
C3_Witness ==
  /\ Returned("create_indicators")
  /\ arg.series
  /\ arg.window >= 6
  /\ arg.prices.shape[1] = 2
  /\ arg.prices.shape[2] > arg.window
  /\ ~ret.raised
  /\ ret.data.var.shape[2] >= 2
  /\ At2(ret.data.macd1, 1, 1) # At2(ret.data.macd1, 1, 2)

\* C2: create_indicators with series=False returns, for each of the four
\* indicators, one value per batch element (shape (batch)), equal to the last
\* time element of the indicator that series=True returns for the same
\* prices and window.
C2_LatestIsEndOfSeries ==
  (/\ Returned("create_indicators")
   /\ ~arg.series
   /\ 6 <= arg.window
   /\ arg.window <= arg.prices.shape[2]) =>
    LET full == create_indicators(arg.prices, arg.window, TRUE)
        batch == arg.prices.shape[1]
    IN /\ ~ret.raised
       /\ DOMAIN ret.data = {"macd1", "macd2", "pct", "var"}
       /\ \A name \in DOMAIN ret.data :
            /\ ret.data[name].shape = <<batch>>
            /\ \A b \in 1..batch :
                 ret.data[name].data[b] = At2(full.data[name], b, full.data[name].shape[2])

\* C10: with 1 <= window <= T, create_indicators returns an indicator mapping
\* only when window >= 6.  For window <= 5 it raises in a moving_average call
\* whose window is int(window/6) = 0 (for window = 1 in the first call
\* already, int(window/2) being 0), and returns nothing; for window >= 6 the
\* four derived window sizes all lie between 1 and T.
C10_WindowBelowSixRaises ==
  (/\ Returned("create_indicators")
   /\ 1 <= arg.window
   /\ arg.window <= arg.prices.shape[2]) =>
    LET window == arg.window
        calls_made == ret.ma_windows
    IN /\ ~ret.raised => window >= 6
       /\ window <= 5 =>
            /\ ret.raised
            /\ DOMAIN ret.data = {}
            /\ calls_made[Len(calls_made)] = 0
            /\ \A i \in 1..(Len(calls_made) - 1) : calls_made[i] >= 1
            /\ window \div 6 = 0
       /\ window = 1 => calls_made = <<0>> /\ window \div 2 = 0 /\ window \div 3 = 0
       /\ window \in 2..5 => calls_made = <<window \div 2, 0>>
       /\ window >= 6 =>
            /\ calls_made = <<window \div 2, window \div 6, window, window \div 3>>
            /\ \A i \in 1..4 : calls_made[i] >= 1 /\ calls_made[i] <= arg.prices.shape[2]

\* A window of 5 on at least 5 prices: the long average is computed, the
\* short one raises.
C10_Witness ==
  /\ Returned("create_indicators")
  /\ arg.window = 5
  /\ arg.prices.shape[2] >= 5
  /\ ret.raised
  /\ ret.ma_windows = <<2, 0>>

\* The batch elements of a stats call for which P(predicted, true) holds.
Elements(P(_, _)) ==
  LET predicted == ArgmaxDim1(arg.dist).data
      true == to_categorical(arg.truth).data
  IN {i \in 1..arg.truth.shape[1] : P(predicted[i], true[i])}

\* x is n / d, or the undefined result of a division by zero when d = 0.
IsRatio(x, n, d) == IF d = 0 THEN x.den = 0 ELSE IsQuotient(x, n, d)

\* C6: over N >= 1 elements, stats returns accuracy = (elements whose
\* predicted category, the argmax of their dist row, equals their true
\* category, to_categorical of their truth) / N, precision = (elements
\* predicted 2 and truly 2) / (elements predicted 2) and recall = the same
\* numerator / (elements truly 2); only category 2 is the positive class.
C6_StatsCounts ==
  (Returned("stats") /\ arg.truth.shape[1] >= 1) =>
    LET matches == Cardinality(Elements(LAMBDA p, c : p = c))
        hits == Cardinality(Elements(LAMBDA p, c : p = 2 /\ c = 2))
        predicted2 == Cardinality(Elements(LAMBDA p, c : p = 2))
        true2 == Cardinality(Elements(LAMBDA p, c : c = 2))
    IN /\ IsQuotient(ret.accuracy, matches, arg.truth.shape[1])
       /\ IsRatio(ret.precision, hits, predicted2)
       /\ IsRatio(ret.recall, hits, true2)

\* A batch in which precision and recall differ, with elements of the other
\* two categories that agree with their truth.
C6_Witness ==
  /\ Returned("stats")
  /\ arg.truth.shape[1] >= 3
  /\ IsFinite(ret.precision)
  /\ IsFinite(ret.recall)
  /\ ret.precision # ret.recall
  /\ ret.precision # Zero
  /\ Elements(LAMBDA p, c : p = c /\ p # 2) # {}

\* C7: when no element is predicted 2, the precision stats returns is the
\* undefined result of dividing zero by zero, no number of [0,1], and the
\* accuracy still is the fraction of exact matches.
C7_PrecisionUndefined ==
  (/\ Returned("stats")
   /\ arg.truth.shape[1] >= 1
   /\ Elements(LAMBDA p, c : p = 2) = {}) =>
    /\ ret.precision.den = 0
    /\ ret.precision.num = 0
    /\ IsQuotient(ret.accuracy, Cardinality(Elements(LAMBDA p, c : p = c)), arg.truth.shape[1])
    /\ 0 <= ret.accuracy.num
    /\ ret.accuracy.num <= ret.accuracy.den

\* No element predicted 2, some truly 2, and some exact matches.
C7_Witness ==
  /\ Returned("stats")
  /\ arg.truth.shape[1] >= 2
  /\ Elements(LAMBDA p, c : p = 2) = {}
  /\ Elements(LAMBDA p, c : c = 2) # {}
  /\ Elements(LAMBDA p, c : p = c) # {}
  /\ ~IsFinite(ret.precision)

\* The encoded features of one time step, as the encoder yields them.
Features(v) == [enc |-> v, width |-> 16]

\* The hidden state of batch row b after the GRU steps 0 .. n-1, in that
\* order, from a zero state.
FoldedFromZero(b, n) == [k \in 1..n |-> Features(arg.x[b][k])]

\* C8: in recurrent mode every forward call starts from a zero hidden state,
\* whatever an earlier call left, applies the GRU cell once per time step in
\* increasing order, each step to that step's encoded features and the
\* previous step's hidden state, exactly timesteps times, and hands the
\* hidden state after the last step to the decoder.
C8_HiddenFoldedFromZero ==
  (op = "forward" /\ recurrent) =>
    LET batch == Len(arg.x)
        timesteps == Len(arg.x[1])
    IN /\ pc = "loop" =>
            /\ t <= timesteps
            /\ DOMAIN hidden = 1..batch
            /\ \A b \in 1..batch : hidden[b] = FoldedFromZero(b, t)
       /\ (pc = "softmax" \/ (pc = "returned" /\ ~ret.err)) =>
            /\ t = timesteps
            /\ DOMAIN decoder_in = 1..batch
            /\ \A b \in 1..batch :
                 /\ Len(decoder_in[b]) = timesteps
                 /\ decoder_in[b] = FoldedFromZero(b, timesteps)

\* A second forward call, of two rows and two time steps, at the decoder.
C8_Witness ==
  /\ op = "forward"
  /\ recurrent
  /\ pc = "softmax"
  /\ calls = 2
  /\ Len(arg.x) = 2
  /\ Len(arg.x[1]) = 2
  /\ Len(decoder_in[1]) = 2

\* a + b + c = 1, for finite rationals.
SumsToOne(a, b, c) ==
  a.num * b.den * c.den + b.num * a.den * c.den + c.num * a.den * b.den
    = a.den * b.den * c.den

\* C9: in either mode forward returns, for every batch element, a row of
\* exactly 3 non-negative values that sum to 1.
C9_RowsAreDistributions ==
  (Returned("forward") /\ ~ret.err) =>
    /\ ret.shape = <<Len(arg.x), 3>>
    /\ Len(ret.data) = 3 * Len(arg.x)
    /\ \A b \in 1..Len(arg.x) :
         /\ \A c \in 1..3 : At2(ret, b, c).den > 0 /\ At2(ret, b, c).num >= 0
         /\ SumsToOne(At2(ret, b, 1), At2(ret, b, 2), At2(ret, b, 3))

\* A batch of two rows returned in non-recurrent mode, one row not uniform.
C9_Witness ==
  /\ Returned("forward")
  /\ ~recurrent
  /\ ~ret.err
  /\ Len(arg.x) = 2
  /\ At2(ret, 1, 1) # At2(ret, 1, 3)
  /\ At2(ret, 1, 1) # At2(ret, 2, 1)

====
